---- MODULE Spec2Model ----
(***************************************************************************)
(* Model of strings/knuth_morris_pratt.py (kmp, get_failure_array) and of  *)
(* strings/min_cost_string_conversion.py (compute_transform_tables,        *)
(* assemble_transformation, print_operations).                             *)
(*                                                                         *)
(* Python sequences are 0-based and TLA+ sequences 1-based: every index    *)
(* below is the Python index, and PyGet/PyInRange give Python's indexing   *)
(* (negative indices count from the end, anything else is an IndexError).  *)
(***************************************************************************)
EXTENDS Integers, Sequences, FiniteSets, TLC

\* ----------------------------------------------------------------- bounds
MaxPat == 6
MaxText == 5
MaxLen == 2
MaxCost == 1

Alphabet == {"a", "b"}

Strings(n) == UNION {[1..k -> Alphabet] : k \in 0..n}

\* ------------------------------------------------------- Python indexing
PyInRange(s, k) == k >= -Len(s) /\ k < Len(s)

PyGet(s, k) == IF k >= 0 THEN s[k + 1] ELSE s[Len(s) + k + 1]

Running == [status |-> "running"]

Returned(v) == [status |-> "returned", value |-> v]

Raised(e) == [status |-> "raised", error |-> e]

\* =================================================== knuth_morris_pratt.py
VARIABLES
    call,       \* the function the caller invoked: "kmp" or "get_failure_array"
    pattern,    \* argument pattern
    text,       \* argument text (kmp only)
    kpc,        \* control point
    failure,    \* the list `failure` of get_failure_array
    fi, fj,     \* get_failure_array's locals i and j
    ki, kj,     \* kmp's locals i (index into text) and j (index into pattern)
    iters,      \* iterations of kmp's while loop started so far
    outcome     \* what the call gave its caller

kvars == <<call, pattern, text, kpc, failure, fi, fj, ki, kj, iters, outcome>>

\* ========================================== min_cost_string_conversion.py
VARIABLES
    caller,        \* who runs the pipeline: "script" or "print_operations"
    source,        \* source_string, as source_seq
    dest,          \* destination_string, as destination_seq
    copy_cost, replace_cost, delete_cost, insert_cost,
    epc,           \* control point
    costs, ops,    \* the two matrices of compute_transform_tables
    ci, cj,        \* its loop variables i and j
    start,         \* the (i, j) assemble_transformation was first called with
    ai, aj,        \* the (i, j) of its innermost frame
    stack,         \* ops[i][j] of every frame waiting for its recursive call
    seq,           \* the list assemble_transformation returned
    string,        \* print_operations' local string
    pidx,          \* print_operations' local i
    pcost,         \* print_operations' local cost
    pnext,         \* how many operations of sequence its for loop has consumed
    printed,       \* the lines print_operations has printed
    eout           \* what the call gave its caller

inputs == <<caller, source, dest, copy_cost, replace_cost, delete_cost, insert_cost>>

tables == <<costs, ops, ci, cj>>

trav == <<start, ai, aj, stack, seq>>

prt == <<string, pidx, pcost, pnext, printed>>

evars == <<inputs, epc, tables, trav, prt, eout>>

vars == <<kvars, evars>>

\* while j < len(pattern)
FailureLoopGuard(p, j) == j < Len(p)

\* i += 1 ... failure.append(i)
MatchedPrefixLen(i) == i + 1

\* i = failure[i - 1]
FailureFallbackMutant(f, i) == i - 1

FailureFallback(f, i) == PyGet(f, i - 1)

\* while i < len(text)
TextRemaining(t, i) == i < Len(t)

\* if j == (len(pattern) - 1)
IsLastIndex(p, j) == j = Len(p) - 1

\* j = failure[j - 1]
ScanFallbackMutant(f, j) == 0

ScanFallbackOffByOne(f, j) == PyGet(f, j)

ScanFallback(f, j) == PyGet(f, j - 1)

\* the other module is not running
EditIdle ==
    /\ caller = "none"
    /\ source = <<>> /\ dest = <<>>
    /\ copy_cost = 0 /\ replace_cost = 0 /\ delete_cost = 0 /\ insert_cost = 0
    /\ epc = "idle"
    /\ costs = <<>> /\ ops = <<>>
    /\ ci = 0 /\ cj = 0
    /\ start = <<0, 0>> /\ ai = 0 /\ aj = 0
    /\ stack = <<>> /\ seq = <<>>
    /\ string = <<>> /\ pidx = 0 /\ pcost = 0 /\ pnext = 0
    /\ printed = <<>>
    /\ eout = Running

KmpInit ==
    /\ call \in {"kmp", "get_failure_array"}
    /\ pattern \in Strings(MaxPat)
    /\ text \in IF call = "kmp" THEN Strings(MaxText) ELSE {<<>>}
    /\ kpc = "gfa_entry"
    /\ failure = <<>>
    /\ fi = 0 /\ fj = 0 /\ ki = 0 /\ kj = 0
    /\ iters = 0
    /\ outcome = Running
    /\ EditIdle

\* failure = [0]; i = 0; j = 1
GfaEnter ==
    /\ kpc = "gfa_entry"
    /\ failure' = <<0>>
    /\ fi' = 0
    /\ fj' = 1
    /\ kpc' = "gfa_loop"
    /\ UNCHANGED <<call, pattern, text, ki, kj, iters, outcome>>
    /\ UNCHANGED evars

\* if pattern[i] == pattern[j]: i += 1; then j += 1; failure.append(i)
GfaMatch ==
    /\ kpc = "gfa_loop"
    /\ FailureLoopGuard(pattern, fj)
    /\ PyGet(pattern, fi) = PyGet(pattern, fj)
    /\ fi' = MatchedPrefixLen(fi)
    /\ fj' = fj + 1
    /\ failure' = Append(failure, fi')
    /\ UNCHANGED <<call, pattern, text, kpc, ki, kj, iters, outcome>>
    /\ UNCHANGED evars

\* elif i > 0: i = failure[i - 1]; continue
GfaFallback ==
    /\ kpc = "gfa_loop"
    /\ FailureLoopGuard(pattern, fj)
    /\ PyGet(pattern, fi) # PyGet(pattern, fj)
    /\ fi > 0
    /\ fi' = FailureFallback(failure, fi)
    /\ UNCHANGED <<call, pattern, text, kpc, failure, fj, ki, kj, iters, outcome>>
    /\ UNCHANGED evars

\* mismatch with i == 0: j += 1; failure.append(i)
GfaMismatch ==
    /\ kpc = "gfa_loop"
    /\ FailureLoopGuard(pattern, fj)
    /\ PyGet(pattern, fi) # PyGet(pattern, fj)
    /\ fi <= 0
    /\ fj' = fj + 1
    /\ failure' = Append(failure, fi)
    /\ UNCHANGED <<call, pattern, text, kpc, fi, ki, kj, iters, outcome>>
    /\ UNCHANGED evars

\* return failure, to the caller of get_failure_array
GfaReturn ==
    /\ kpc = "gfa_loop"
    /\ ~FailureLoopGuard(pattern, fj)
    /\ call = "get_failure_array"
    /\ kpc' = "done"
    /\ outcome' = Returned(failure)
    /\ UNCHANGED <<call, pattern, text, failure, fi, fj, ki, kj, iters>>
    /\ UNCHANGED evars

\* return failure, to kmp: failure = get_failure_array(pattern); i, j = 0, 0
GfaReturnToKmp ==
    /\ kpc = "gfa_loop"
    /\ ~FailureLoopGuard(pattern, fj)
    /\ call = "kmp"
    /\ kpc' = "kmp_loop"
    /\ ki' = 0
    /\ kj' = 0
    /\ UNCHANGED <<call, pattern, text, failure, fi, fj, iters, outcome>>
    /\ UNCHANGED evars

\* pattern[j] or text[i] out of range: the comparison raises IndexError
KmpIndexError ==
    /\ kpc = "kmp_loop"
    /\ TextRemaining(text, ki)
    /\ ~(PyInRange(pattern, kj) /\ PyInRange(text, ki))
    /\ kpc' = "done"
    /\ iters' = iters + 1
    /\ outcome' = Raised("IndexError")
    /\ UNCHANGED <<call, pattern, text, failure, fi, fj, ki, kj>>
    /\ UNCHANGED evars

\* if pattern[j] == text[i]: if j == (len(pattern) - 1): return True
KmpFound ==
    /\ kpc = "kmp_loop"
    /\ TextRemaining(text, ki)
    /\ PyInRange(pattern, kj) /\ PyInRange(text, ki)
    /\ PyGet(pattern, kj) = PyGet(text, ki)
    /\ IsLastIndex(pattern, kj)
    /\ kpc' = "done"
    /\ iters' = iters + 1
    /\ outcome' = Returned(TRUE)
    /\ UNCHANGED <<call, pattern, text, failure, fi, fj, ki, kj>>
    /\ UNCHANGED evars

\* if pattern[j] == text[i]: j += 1; then i += 1
KmpMatch ==
    /\ kpc = "kmp_loop"
    /\ TextRemaining(text, ki)
    /\ PyInRange(pattern, kj) /\ PyInRange(text, ki)
    /\ PyGet(pattern, kj) = PyGet(text, ki)
    /\ ~IsLastIndex(pattern, kj)
    /\ kj' = kj + 1
    /\ ki' = ki + 1
    /\ iters' = iters + 1
    /\ UNCHANGED <<call, pattern, text, kpc, failure, fi, fj, outcome>>
    /\ UNCHANGED evars

\* elif j > 0: j = failure[j - 1]; continue
KmpFallback ==
    /\ kpc = "kmp_loop"
    /\ TextRemaining(text, ki)
    /\ PyInRange(pattern, kj) /\ PyInRange(text, ki)
    /\ PyGet(pattern, kj) # PyGet(text, ki)
    /\ kj > 0
    /\ kj' = ScanFallback(failure, kj)
    /\ iters' = iters + 1
    /\ UNCHANGED <<call, pattern, text, kpc, failure, fi, fj, ki, outcome>>
    /\ UNCHANGED evars

\* mismatch with j == 0: i += 1
KmpAdvance ==
    /\ kpc = "kmp_loop"
    /\ TextRemaining(text, ki)
    /\ PyInRange(pattern, kj) /\ PyInRange(text, ki)
    /\ PyGet(pattern, kj) # PyGet(text, ki)
    /\ kj <= 0
    /\ ki' = ki + 1
    /\ iters' = iters + 1
    /\ UNCHANGED <<call, pattern, text, kpc, failure, fi, fj, kj, outcome>>
    /\ UNCHANGED evars

\* the loop ends: return False
KmpNotFound ==
    /\ kpc = "kmp_loop"
    /\ ~TextRemaining(text, ki)
    /\ kpc' = "done"
    /\ outcome' = Returned(FALSE)
    /\ UNCHANGED <<call, pattern, text, failure, fi, fj, ki, kj, iters>>
    /\ UNCHANGED evars

KmpNext ==
    \/ GfaEnter
    \/ GfaMatch
    \/ GfaFallback
    \/ GfaMismatch
    \/ GfaReturn
    \/ GfaReturnToKmp
    \/ KmpIndexError
    \/ KmpFound
    \/ KmpMatch
    \/ KmpFallback
    \/ KmpAdvance
    \/ KmpNotFound

SpecKmp == KmpInit /\ [][KmpNext]_vars
\* ------------------------------------------------ claims on kmp and its table
\* P occurs in T at some offset 0..len(T)-len(P): the naive scan
OccursAt(p, t, off) == \A k \in 1..Len(p) : t[off + k] = p[k]

Occurs(p, t) == \E off \in 0..(Len(t) - Len(p)) : OccursAt(p, t, off)

\* the longest proper prefix of p[0..j] that is also a suffix of p[0..j]
IsBorder(p, j, k) == \A n \in 1..k : p[n] = p[j + 1 - k + n]

LongestBorder(p, j) ==
    CHOOSE k \in 0..j :
        /\ IsBorder(p, j, k)
        /\ \A k2 \in 0..j : IsBorder(p, j, k2) => k2 <= k

\* get_failure_array has returned its list (to its caller, or to kmp)
FailureReturned == kpc \in {"kmp_loop", "done"}

\* C1: for a non-empty pattern, kmp(P, T) returns True exactly when P occurs
\* in T as a contiguous substring (the naive scan over all offsets), so it
\* returns False when T is empty or P is longer than T.
C1_KmpAgreesWithNaiveScan ==
    (call = "kmp" /\ pattern # <<>> /\ kpc = "done") =>
        /\ outcome = Returned(Occurs(pattern, text))
        /\ (text = <<>> \/ Len(pattern) > Len(text)) => outcome = Returned(FALSE)

\* a match found at a later offset, after the scan fell back at least once
C1_Witness ==
    /\ call = "kmp" /\ kpc = "done" /\ pattern # <<>>
    /\ outcome = Returned(TRUE)
    /\ iters > ki + 1
    /\ ~OccursAt(pattern, text, 0)

\* C2: for a non-empty pattern, get_failure_array returns len(P) entries, entry
\* j being the length of the longest proper prefix of P[0..j] that is also a
\* suffix of it; so entry 0 is 0 and entry j is at most j.
C2_FailureArrayIsLongestBorder ==
    (FailureReturned /\ pattern # <<>>) =>
        /\ Len(failure) = Len(pattern)
        /\ \A j \in 0..(Len(pattern) - 1) :
            /\ PyGet(failure, j) = LongestBorder(pattern, j)
            /\ PyGet(failure, j) <= j
        /\ PyGet(failure, 0) = 0
        /\ (call = "get_failure_array" => outcome = Returned(failure))

\* a returned table whose last entry was reached by falling back to a shorter,
\* non-empty border
C2_Witness ==
    /\ call = "get_failure_array" /\ kpc = "done"
    /\ Len(pattern) >= 4
    /\ outcome = Returned(failure)
    /\ PyGet(failure, Len(pattern) - 1) >= 2
    /\ PyGet(failure, Len(pattern) - 1) <= PyGet(failure, Len(pattern) - 2)

\* C5: an empty pattern is rejected by get_failure_array and by kmp with an
\* InvalidInput error at entry, and no list or boolean is returned.
C5_EmptyPatternRejected ==
    (pattern = <<>> /\ kpc = "done") =>
        /\ outcome = Raised("InvalidInput")
        /\ iters = 0

\* C10: the scan loop of kmp terminates for a non-empty pattern: a fallback
\* step strictly decreases j and keeps i, any other step that stays in the
\* loop advances i by one, 0 <= j < len(pattern), the text is never read out
\* of range, and at most 2 * len(text) iterations run before True or False is
\* returned.
ScanInvariant ==
    (call = "kmp" /\ pattern # <<>> /\ kpc \in {"kmp_loop", "done"}) =>
        /\ 0 <= kj /\ kj < Len(pattern)
        /\ 0 <= ki /\ ki <= Len(text)
        /\ iters <= 2 * Len(text)
        /\ kpc = "kmp_loop" => ENABLED KmpNext
        /\ kpc = "done" => outcome \in {Returned(TRUE), Returned(FALSE)}

ScanStep ==
    (pattern # <<>> /\ kpc = "kmp_loop" /\ kpc' = "kmp_loop") =>
        /\ iters' = iters + 1
        /\ IF PyGet(pattern, kj) # PyGet(text, ki) /\ kj > 0
           THEN ki' = ki /\ kj' < kj /\ kj' >= 0
           ELSE ki' = ki + 1

\* C10, as stated above: ScanInvariant in every state, ScanStep at every step
C10_ScanLoopTerminates == []ScanInvariant /\ [][ScanStep]_vars

\* a scan that fell back several times and still ended with False
C10_Witness ==
    /\ call = "kmp" /\ kpc = "done" /\ pattern # <<>>
    /\ outcome = Returned(FALSE)
    /\ iters >= Len(text) + 2
\* ========================================== min_cost_string_conversion.py
\* An operation string is the sequence of its characters: "Rab" is
\* <<"R", "a", "b">>, and op[0] is its tag.
\* "0"
NoOp == <<"0">>

\* "C%c" % source_seq[i - 1]
CopyOp(i) == <<"C", PyGet(source, i - 1)>>

\* "R%c" % source_seq[i - 1] + str(destination_seq[j - 1])
ReplaceOp(i, j) == <<"R", PyGet(source, i - 1)>> \o <<PyGet(dest, j - 1)>>

\* "D%c" % source_seq[i - 1]
DeleteOp(i) == <<"D", PyGet(source, i - 1)>>

\* "I%c" % destination_seq[j - 1]
InsertOp(j) == <<"I", PyGet(dest, j - 1)>>

\* m[i][j] for a list of lists m, with Python's indexing
Cell(m, i, j) == PyGet(PyGet(m, i), j)

CellInRange(m, i, j) == PyInRange(m, i) /\ PyInRange(PyGet(m, i), j)

\* m[i][j] = v, for i, j >= 0
SetCell(m, i, j, v) == [m EXCEPT ![i + 1][j + 1] = v]

\* [[v for _ in range(len_destination_seq + 1)] for _ in range(len_source_seq + 1)]
Matrix(v) == [r \in 1..(Len(source) + 1) |-> [c \in 1..(Len(dest) + 1) |-> v]]

\* costs[i - 1][j - 1] + copy_cost, or + replace_cost
DiagonalCost(m, i, j) ==
    Cell(m, i - 1, j - 1) +
        (IF PyGet(source, i - 1) = PyGet(dest, j - 1) THEN copy_cost ELSE replace_cost)

DiagonalOp(i, j) ==
    IF PyGet(source, i - 1) = PyGet(dest, j - 1) THEN CopyOp(i) ELSE ReplaceOp(i, j)

\* costs[i - 1][j] + delete_cost
VerticalCost(m, i, j) == Cell(m, i - 1, j) + delete_cost

\* costs[i][j - 1] + insert_cost
HorizontalCostMutant(m, i, j) == Cell(m, i, j - 1) + delete_cost

HorizontalCost(m, i, j) == Cell(m, i, j - 1) + insert_cost

\* the "<" of `if costs[i - 1][j] + delete_cost < costs[i][j]` and of
\* `if costs[i][j - 1] + insert_cost < costs[i][j]`
ImprovesMutant(candidate, current) == candidate <= current

Improves(candidate, current) == candidate < current

\* the body of the double loop, on the pair <<costs, ops>>
CellAfterDiagonal(t, i, j) ==
    <<SetCell(t[1], i, j, DiagonalCost(t[1], i, j)), SetCell(t[2], i, j, DiagonalOp(i, j))>>

CellAfterVertical(t, i, j) ==
    IF Improves(VerticalCost(t[1], i, j), Cell(t[1], i, j))
    THEN <<SetCell(t[1], i, j, VerticalCost(t[1], i, j)), SetCell(t[2], i, j, DeleteOp(i))>>
    ELSE t

CellAfterHorizontal(t, i, j) ==
    IF Improves(HorizontalCost(t[1], i, j), Cell(t[1], i, j))
    THEN <<SetCell(t[1], i, j, HorizontalCost(t[1], i, j)), SetCell(t[2], i, j, InsertOp(j))>>
    ELSE t

CellUpdate(t, i, j) ==
    CellAfterHorizontal(CellAfterVertical(CellAfterDiagonal(t, i, j), i, j), i, j)

EditInit ==
    /\ caller \in {"script", "print_operations"}
    /\ source \in Strings(MaxLen)
    /\ dest \in Strings(MaxLen)
    /\ copy_cost \in 0..MaxCost
    /\ replace_cost \in 0..MaxCost
    /\ delete_cost \in 0..MaxCost
    /\ insert_cost \in 0..MaxCost
    /\ epc = "compute_entry"
    /\ costs = <<>> /\ ops = <<>>
    /\ ci = 0 /\ cj = 0
    /\ start = <<0, 0>> /\ ai = 0 /\ aj = 0
    /\ stack = <<>> /\ seq = <<>>
    /\ string = <<>> /\ pidx = 0 /\ pcost = 0 /\ pnext = 0
    /\ printed = <<>>
    /\ eout = Running
    /\ call = "none" /\ pattern = <<>> /\ text = <<>> /\ kpc = "idle"
    /\ failure = <<>> /\ fi = 0 /\ fj = 0 /\ ki = 0 /\ kj = 0
    /\ iters = 0 /\ outcome = Running

\* costs = [[0 ...]]; ops = [["0" ...]]; the first loop starts at i = 1
ComputeEnter ==
    /\ epc = "compute_entry"
    /\ costs' = Matrix(0)
    /\ ops' = Matrix(NoOp)
    /\ ci' = 1
    /\ cj' = 0
    /\ epc' = "delete_border"
    /\ UNCHANGED <<inputs, trav, prt, eout>>
    /\ UNCHANGED kvars

\* for i in range(1, len_source_seq + 1): costs[i][0] = ...; ops[i][0] = ...
DeleteBorderStep ==
    /\ epc = "delete_border"
    /\ ci <= Len(source)
    /\ costs' = SetCell(costs, ci, 0, ci * delete_cost)
    /\ ops' = SetCell(ops, ci, 0, DeleteOp(ci))
    /\ ci' = ci + 1
    /\ UNCHANGED <<inputs, epc, cj, trav, prt, eout>>
    /\ UNCHANGED kvars

\* the first loop ends, the second starts at i = 1
DeleteBorderDone ==
    /\ epc = "delete_border"
    /\ ci > Len(source)
    /\ ci' = 1
    /\ epc' = "insert_border"
    /\ UNCHANGED <<inputs, costs, ops, cj, trav, prt, eout>>
    /\ UNCHANGED kvars

\* for i in range(1, len_destination_seq + 1): costs[0][i] = ...; ops[0][i] = ...
InsertBorderStep ==
    /\ epc = "insert_border"
    /\ ci <= Len(dest)
    /\ costs' = SetCell(costs, 0, ci, ci * insert_cost)
    /\ ops' = SetCell(ops, 0, ci, InsertOp(ci))
    /\ ci' = ci + 1
    /\ UNCHANGED <<inputs, epc, cj, trav, prt, eout>>
    /\ UNCHANGED kvars

\* the second loop ends, the double loop starts at i = 1, j = 1
InsertBorderDone ==
    /\ epc = "insert_border"
    /\ ci > Len(dest)
    /\ ci' = 1
    /\ cj' = 1
    /\ epc' = "cells"
    /\ UNCHANGED <<inputs, costs, ops, trav, prt, eout>>
    /\ UNCHANGED kvars

\* one pass of the inner loop body
CellStep ==
    /\ epc = "cells"
    /\ ci <= Len(source)
    /\ cj <= Len(dest)
    /\ costs' = CellUpdate(<<costs, ops>>, ci, cj)[1]
    /\ ops' = CellUpdate(<<costs, ops>>, ci, cj)[2]
    /\ cj' = cj + 1
    /\ UNCHANGED <<inputs, epc, ci, trav, prt, eout>>
    /\ UNCHANGED kvars

\* the inner loop ends: next i, j from 1 again
RowDone ==
    /\ epc = "cells"
    /\ ci <= Len(source)
    /\ cj > Len(dest)
    /\ ci' = ci + 1
    /\ cj' = 1
    /\ UNCHANGED <<inputs, epc, costs, ops, trav, prt, eout>>
    /\ UNCHANGED kvars

\* return costs, ops
ComputeReturn ==
    /\ epc = "cells"
    /\ ci > Len(source)
    /\ epc' = "computed"
    /\ UNCHANGED <<inputs, tables, trav, prt, eout>>
    /\ UNCHANGED kvars
\* ------------------------------------------------ assemble_transformation
\* ops[i][j][0]
Tag(op) == PyGet(op, 0)

InMatrix(i, j) == 0 <= i /\ i <= Len(source) /\ 0 <= j /\ j <= Len(dest)

\* the (i, j) of the recursive call, by the tag of ops[i][j]
PredCellMutant(tag, i, j) ==
    IF tag \in {"C", "R"} THEN <<i - 1, j - 1>>
    ELSE IF tag = "D" THEN <<i, j - 1>>
    ELSE <<i - 1, j>>

PredCell(tag, i, j) ==
    IF tag \in {"C", "R"} THEN <<i - 1, j - 1>>
    ELSE IF tag = "D" THEN <<i - 1, j>>
    ELSE <<i, j - 1>>

\* the returns of the waiting frames, innermost first: the innermost call
\* returns [], and each frame appends its ops[i][j] to what its call returned
RECURSIVE Unwind(_)
UnwindMutant(stk) == stk

Unwind(stk) == IF stk = <<>> THEN <<>> ELSE Append(Unwind(Tail(stk)), Head(stk))

\* assemble_transformation(ops, i, j), called on the tables just computed,
\* for a cell (i, j) of the matrix
AssembleCall ==
    /\ epc = "computed"
    /\ caller = "script"
    /\ \E i \in 0..Len(source), j \in 0..Len(dest) :
        /\ start' = <<i, j>>
        /\ ai' = i
        /\ aj' = j
    /\ stack' = <<>>
    /\ epc' = "assemble"
    /\ UNCHANGED <<inputs, tables, seq, prt, eout>>
    /\ UNCHANGED kvars

\* the same call for an (i, j) that is no cell of the matrix
AssembleCallOutside ==
    /\ epc = "computed"
    /\ caller = "script"
    /\ \E i \in (-(Len(source) + 2))..(Len(source) + 1),
          j \in (-(Len(dest) + 2))..(Len(dest) + 1) :
        /\ ~InMatrix(i, j)
        /\ start' = <<i, j>>
        /\ ai' = i
        /\ aj' = j
    /\ stack' = <<>>
    /\ epc' = "assemble"
    /\ UNCHANGED <<inputs, tables, seq, prt, eout>>
    /\ UNCHANGED kvars

\* m = len(operations); n = len(operations[0]);
\* sequence = assemble_transformation(operations, m - 1, n - 1)
AssembleCallFromPrint ==
    /\ epc = "computed"
    /\ caller = "print_operations"
    /\ start' = <<Len(ops) - 1, Len(PyGet(ops, 0)) - 1>>
    /\ ai' = Len(ops) - 1
    /\ aj' = Len(PyGet(ops, 0)) - 1
    /\ stack' = <<>>
    /\ epc' = "assemble"
    /\ UNCHANGED <<inputs, tables, seq, prt, eout>>
    /\ UNCHANGED kvars

\* if i == 0 and j == 0: return [], and every waiting frame appends and returns
AssembleBase ==
    /\ epc = "assemble"
    /\ ai = 0 /\ aj = 0
    /\ seq' = Unwind(stack)
    /\ epc' = "assembled"
    /\ UNCHANGED <<inputs, tables, start, ai, aj, stack, prt, eout>>
    /\ UNCHANGED kvars

\* the else branch of one frame: ops[i][j][0] is read, which raises IndexError
\* (through every waiting frame) when i or j is outside the lists, and then the
\* frame calls assemble_transformation again
AssembleRecurse ==
    /\ epc = "assemble"
    /\ ~(ai = 0 /\ aj = 0)
    /\ IF CellInRange(ops, ai, aj)
       THEN /\ ai' = PredCell(Tag(Cell(ops, ai, aj)), ai, aj)[1]
            /\ aj' = PredCell(Tag(Cell(ops, ai, aj)), ai, aj)[2]
            /\ stack' = Append(stack, Cell(ops, ai, aj))
            /\ UNCHANGED <<epc, eout>>
       ELSE /\ epc' = "done"
            /\ eout' = Raised("IndexError")
            /\ UNCHANGED <<ai, aj, stack>>
    /\ UNCHANGED <<inputs, tables, start, seq, prt>>
    /\ UNCHANGED kvars

\* the list reaches the script that called assemble_transformation
AssembleReturn ==
    /\ epc = "assembled"
    /\ caller = "script"
    /\ epc' = "done"
    /\ eout' = Returned(seq)
    /\ UNCHANGED <<inputs, tables, trav, prt>>
    /\ UNCHANGED kvars

\* -------------------------------------------------------- print_operations
\* list("Python")
PythonLiteral == <<"P", "y", "t", "h", "o", "n">>

\* list.pop(k), list.insert(k, x) for k >= 0, and s[k] = x
RemoveAt(s, k) == SubSeq(s, 1, k) \o SubSeq(s, k + 2, Len(s))

InsertAt(s, k, x) ==
    IF k >= Len(s) THEN Append(s, x)
    ELSE SubSeq(s, 1, k) \o <<x>> \o SubSeq(s, k + 1, Len(s))

SetAt(s, k, x) == [s EXCEPT ![k + 1] = x]

\* string = list("Python"); i = 0; cost = 0
PrintEnter ==
    /\ epc = "assembled"
    /\ caller = "print_operations"
    /\ string' = PythonLiteral
    /\ pidx' = 0
    /\ pcost' = 0
    /\ pnext' = 0
    /\ printed' = <<>>
    /\ epc' = "print_loop"
    /\ UNCHANGED <<inputs, tables, trav, eout>>
    /\ UNCHANGED kvars

\* print("".join(string)); op[0] == "C": cost -= 1; i += 1
PrintCopy ==
    /\ epc = "print_loop"
    /\ pnext < Len(seq)
    /\ Tag(PyGet(seq, pnext)) = "C"
    /\ printed' = Append(printed, string)
    /\ pcost' = pcost - 1
    /\ pidx' = pidx + 1
    /\ pnext' = pnext + 1
    /\ UNCHANGED <<inputs, epc, tables, trav, string, eout>>
    /\ UNCHANGED kvars

\* op[0] == "R": string[i] = op[2]; cost += 1; i += 1
PrintReplace ==
    /\ epc = "print_loop"
    /\ pnext < Len(seq)
    /\ Tag(PyGet(seq, pnext)) = "R"
    /\ printed' = Append(printed, string)
    /\ IF PyInRange(string, pidx)
       THEN /\ string' = SetAt(string, pidx, PyGet(PyGet(seq, pnext), 2))
            /\ pcost' = pcost + 1
            /\ pidx' = pidx + 1
            /\ pnext' = pnext + 1
            /\ UNCHANGED <<epc, eout>>
       ELSE /\ epc' = "done"
            /\ eout' = Raised("IndexError")
            /\ UNCHANGED <<string, pcost, pidx, pnext>>
    /\ UNCHANGED <<inputs, tables, trav>>
    /\ UNCHANGED kvars

\* op[0] == "D": string.pop(i); cost += 2; i += 1
PrintDelete ==
    /\ epc = "print_loop"
    /\ pnext < Len(seq)
    /\ Tag(PyGet(seq, pnext)) = "D"
    /\ printed' = Append(printed, string)
    /\ IF PyInRange(string, pidx)
       THEN /\ string' = RemoveAt(string, pidx)
            /\ pcost' = pcost + 2
            /\ pidx' = pidx + 1
            /\ pnext' = pnext + 1
            /\ UNCHANGED <<epc, eout>>
       ELSE /\ epc' = "done"
            /\ eout' = Raised("IndexError")
            /\ UNCHANGED <<string, pcost, pidx, pnext>>
    /\ UNCHANGED <<inputs, tables, trav>>
    /\ UNCHANGED kvars

\* else: string.insert(i, op[1]); cost += 2; i += 1
PrintInsert ==
    /\ epc = "print_loop"
    /\ pnext < Len(seq)
    /\ Tag(PyGet(seq, pnext)) \notin {"C", "R", "D"}
    /\ printed' = Append(printed, string)
    /\ string' = InsertAt(string, pidx, PyGet(PyGet(seq, pnext), 1))
    /\ pcost' = pcost + 2
    /\ pidx' = pidx + 1
    /\ pnext' = pnext + 1
    /\ UNCHANGED <<inputs, epc, tables, trav, eout>>
    /\ UNCHANGED kvars

\* after the loop: print("".join(string)); print("Cost: ", cost);
\* file.write("\r\nMinimum cost: " + str(cost))
PrintDone ==
    /\ epc = "print_loop"
    /\ pnext >= Len(seq)
    /\ printed' = Append(printed, string)
    /\ epc' = "done"
    /\ eout' = Returned("None")
    /\ UNCHANGED <<inputs, tables, trav, string, pidx, pcost, pnext>>
    /\ UNCHANGED kvars

EditNext ==
    \/ ComputeEnter
    \/ DeleteBorderStep
    \/ DeleteBorderDone
    \/ InsertBorderStep
    \/ InsertBorderDone
    \/ CellStep
    \/ RowDone
    \/ ComputeReturn
    \/ AssembleCall
    \/ AssembleCallFromPrint
    \/ AssembleBase
    \/ AssembleRecurse
    \/ AssembleReturn
    \/ PrintEnter
    \/ PrintCopy
    \/ PrintReplace
    \/ PrintDelete
    \/ PrintInsert
    \/ PrintDone

SpecEdit == EditInit /\ [][EditNext]_vars

\* the same, with calls of assemble_transformation outside the matrix too
SpecEditAnyCell == EditInit /\ [][EditNext \/ AssembleCallOutside]_vars
\* ------------------------------------ claims on the tables and the traversal
\* source[0..i) and destination[0..j)
Prefix(s, k) == SubSeq(s, 1, k)

\* every sequence of operations that turns source[0..i) into destination[0..j):
\* each operation consumes the next source symbol (Copy, Replace, Delete) or
\* produces the next destination symbol (Copy, Replace, Insert)
RECURSIVE EditScripts(_, _)
EditScripts(i, j) ==
    IF i = 0 /\ j = 0 THEN {<<>>}
    ELSE (IF i > 0 /\ j > 0
          THEN {Append(s, IF source[i] = dest[j] THEN <<"C", source[i]>>
                          ELSE <<"R", source[i], dest[j]>>) : s \in EditScripts(i - 1, j - 1)}
          ELSE {})
         \cup (IF i > 0 THEN {Append(s, <<"D", source[i]>>) : s \in EditScripts(i - 1, j)}
               ELSE {})
         \cup (IF j > 0 THEN {Append(s, <<"I", dest[j]>>) : s \in EditScripts(i, j - 1)}
               ELSE {})

OpCost(op) ==
    CASE op[1] = "C" -> copy_cost
      [] op[1] = "R" -> replace_cost
      [] op[1] = "D" -> delete_cost
      [] op[1] = "I" -> insert_cost

RECURSIVE ScriptCost(_)
ScriptCost(s) == IF s = <<>> THEN 0 ELSE OpCost(Head(s)) + ScriptCost(Tail(s))

MinOf(S) == CHOOSE x \in S : \A y \in S : x <= y

MaxOf2(x, y) == IF x >= y THEN x ELSE y

\* the operations applied one by one, left to right, at a cursor into the
\* string: Copy keeps the symbol under the cursor, Replace substitutes it,
\* Delete removes it, Insert adds one before it. An operation that does not
\* find its source symbol under the cursor gives Misapplied.
Misapplied == <<"?">>

RECURSIVE ApplyFrom(_, _, _)
ApplyFrom(s, str, cur) ==
    IF s = <<>> THEN str
    ELSE LET op == Head(s)
             here == cur < Len(str) /\ str[cur + 1] = op[2]
         IN  CASE op[1] = "C" ->
                    IF here THEN ApplyFrom(Tail(s), str, cur + 1) ELSE Misapplied
               [] op[1] = "R" ->
                    IF here THEN ApplyFrom(Tail(s), SetAt(str, cur, op[3]), cur + 1)
                    ELSE Misapplied
               [] op[1] = "D" ->
                    IF here THEN ApplyFrom(Tail(s), RemoveAt(str, cur), cur) ELSE Misapplied
               [] op[1] = "I" ->
                    ApplyFrom(Tail(s), InsertAt(str, cur, op[2]), cur + 1)
               [] OTHER -> Misapplied

ApplyOps(s, str) == ApplyFrom(s, str, 0)

TagsOf(s) == {s[k][1] : k \in 1..Len(s)}

\* C3: every cell cost[i][j] of the returned matrix is the minimum total cost
\* over all sequences of Copy, Replace, Delete and Insert operations turning
\* source[0..i) into destination[0..j); cost[0][0] = 0, cost[i][0] =
\* i * delete_cost and cost[0][j] = j * insert_cost.
C3_CostsAreMinimal ==
    epc = "computed" =>
        /\ Len(costs) = Len(source) + 1
        /\ \A i \in 0..Len(source) :
            /\ Len(PyGet(costs, i)) = Len(dest) + 1
            /\ Cell(costs, i, 0) = i * delete_cost
            /\ \A j \in 0..Len(dest) :
                Cell(costs, i, j) = MinOf({ScriptCost(s) : s \in EditScripts(i, j)})
        /\ \A j \in 0..Len(dest) : Cell(costs, 0, j) = j * insert_cost
        /\ Cell(costs, 0, 0) = 0

\* tables whose last cell is reached most cheaply by a Delete or an Insert,
\* at a cost above zero and below that of the all-diagonal sequence
C3_Witness ==
    /\ epc = "computed"
    /\ Len(source) >= 2 /\ Len(dest) >= 2
    /\ Tag(Cell(ops, Len(source), Len(dest))) \in {"D", "I"}
    /\ Cell(costs, Len(source), Len(dest)) > 0
    /\ \E s \in EditScripts(Len(source), Len(dest)) :
        /\ TagsOf(s) \subseteq {"C", "R"}
        /\ ScriptCost(s) > Cell(costs, Len(source), Len(dest))

\* C4: the operations assembled for the last cell (len(source),
\* len(destination)), applied one by one to a copy of source, give exactly
\* destination, and their costs add up to costs[len(source)][len(destination)].
C4_RoundTrip ==
    (epc = "assembled" /\ start = <<Len(source), Len(dest)>>) =>
        /\ ApplyOps(seq, source) = dest
        /\ ScriptCost(seq) = Cell(costs, Len(source), Len(dest))

\* a round trip over a sequence that mixes three kinds of operation
C4_Witness ==
    /\ epc = "assembled" /\ start = <<Len(source), Len(dest)>>
    /\ source # dest
    /\ Cardinality(TagsOf(seq)) >= 3
    /\ ApplyOps(seq, source) = dest

\* C6: assemble_transformation(ops, i, j) fails at entry, before any step of
\* the traversal and without returning a sequence, whenever (i, j) lies outside
\* the matrix (i < 0, j < 0, i > len(source) or j > len(destination)).
C6_OutOfBoundsAtEntry ==
    (epc \in {"assemble", "assembled", "done"} /\ caller = "script"
        /\ ~InMatrix(start[1], start[2])) =>
        /\ stack = <<>>
        /\ epc # "assembled"
        /\ epc = "done" => eout.status = "raised"

\* C7: print_operations starts from the source string, the last string it
\* prints is the destination string, and the cost it reports is
\* costs[len(source)][len(destination)].
C7_PrintReportsMinimumCost ==
    (caller = "print_operations" /\ epc = "done") =>
        /\ eout.status = "returned"
        /\ printed[1] = source
        /\ printed[Len(printed)] = dest
        /\ pcost = Cell(costs, Len(source), Len(dest))

\* C8: in every interior cell the tag is the diagonal operation whenever the
\* diagonal candidate attains the minimum, Delete only when the vertical
\* candidate is strictly cheaper than the diagonal one, and Insert only when
\* the horizontal candidate is strictly cheaper than both others.
C8_TieBreak ==
    epc = "computed" =>
        \A i \in 1..Len(source) : \A j \in 1..Len(dest) :
            LET same == source[i] = dest[j]
                diag == Cell(costs, i - 1, j - 1) + (IF same THEN copy_cost ELSE replace_cost)
                vert == Cell(costs, i - 1, j) + delete_cost
                horiz == Cell(costs, i, j - 1) + insert_cost
                op == Cell(ops, i, j)
            IN  /\ (diag <= vert /\ diag <= horiz) =>
                    op = (IF same THEN <<"C", source[i]>> ELSE <<"R", source[i], dest[j]>>)
                /\ op[1] = "D" => (vert < diag /\ op = <<"D", source[i]>>)
                /\ op[1] = "I" => (horiz < diag /\ horiz < vert /\ op = <<"I", dest[j]>>)
                /\ op[1] \in {"C", "R", "D", "I"}

\* tables with a cell where the diagonal ties with the vertical candidate and
\* is kept, and a cell where the vertical ties with the horizontal one, below
\* the diagonal, and Delete is kept
C8_Witness ==
    /\ epc = "computed"
    /\ \E i \in 1..Len(source), j \in 1..Len(dest) :
        LET diag == DiagonalCost(costs, i, j)
        IN  /\ diag = VerticalCost(costs, i, j)
            /\ diag <= HorizontalCost(costs, i, j)
            /\ Tag(Cell(ops, i, j)) \in {"C", "R"}
    /\ \E i \in 1..Len(source), j \in 1..Len(dest) :
        /\ VerticalCost(costs, i, j) = HorizontalCost(costs, i, j)
        /\ VerticalCost(costs, i, j) < DiagonalCost(costs, i, j)
        /\ Tag(Cell(ops, i, j)) = "D"

\* C9: from a start cell (i, j) of the matrix, every step of the traversal
\* strictly decreases i + j, no coordinate becomes negative, (0, 0) is reached
\* after at most i + j steps, and between max(i, j) and i + j operations are
\* returned.
TraversalInvariant ==
    (epc \in {"assemble", "assembled", "print_loop", "done"}
        /\ InMatrix(start[1], start[2])) =>
        /\ ai >= 0 /\ aj >= 0
        /\ Len(stack) <= (start[1] + start[2]) - (ai + aj)
        /\ epc = "assemble" => ENABLED (AssembleBase \/ AssembleRecurse)
        /\ epc # "assemble" =>
            /\ ai = 0 /\ aj = 0
            /\ Len(seq) = Len(stack)
            /\ Len(seq) <= start[1] + start[2]
            /\ Len(seq) >= MaxOf2(start[1], start[2])
        /\ (epc = "done" /\ caller = "script") => eout = Returned(seq)

TraversalStep ==
    (epc = "assemble" /\ epc' = "assemble" /\ InMatrix(start[1], start[2])) =>
        /\ ai' + aj' < ai + aj
        /\ Len(stack') = Len(stack) + 1

\* C9, as stated above: TraversalInvariant in every state, TraversalStep at
\* every step
C9_TraversalTerminates == []TraversalInvariant /\ [][TraversalStep]_vars

\* a traversal that mixed diagonal and straight steps
C9_Witness ==
    /\ epc = "assembled"
    /\ start[1] >= 2 /\ start[2] >= 2
    /\ Len(seq) > MaxOf2(start[1], start[2])
    /\ Len(seq) < start[1] + start[2]
====
